---- MODULE Spec2Model ----
(***************************************************************************)
(* A model of cxxio (include/cxxio.hpp): the redirectable output handle    *)
(* cxxio::Out, the redirectable input handle cxxio::In and the generic     *)
(* transfer operators.  The standard library streams the header builds on  *)
(* are modelled by what they do: a stream is a state word (badbit,         *)
(* failbit, eofbit) plus a buffer; a file stream buffers its output until  *)
(* it is synced or destroyed and writes at its own file offset.            *)
(***************************************************************************)
EXTENDS Integers, Sequences, FiniteSets, TLC

VARIABLES
  disk,        \* the file system: name -> [exists, data, fin]
  sink,        \* what has been sent to std::cout
  cout_state,  \* std::cout.rdstate()
  out_live,    \* is there a constructed Out object
  out_byname,  \* Out::byname: <<>> (null) or <<stream>>
  out_os,      \* Out::os, the view: [rdbuf, state]
  out_myfile,  \* Out::myfile
  stdin,       \* std::cin's source: [data, pos]
  in_live,     \* "none", "live" or "crashed"
  in_byname,   \* In::byname: <<>> (null) or <<stream>>
  in_is,       \* In::is, the view: [rdbuf, state]
  in_myfile,   \* In::myfile
  last,        \* history: the last operation, see Op
  raised,      \* what the last operation threw: [kind, msg, name]
  result,      \* what the last operation returned or extracted
  nwritten,    \* history: how many values the output targets have taken
  bound_by,    \* history: the operation that last bound the output view
  seg,         \* history: values written since the last successful Out::open
               \* ("open", then "closed") or Out::open_compressed ("zopen")
  to,          \* the In object move-constructed from the first: [live, byname, is, myfile]
  fs,          \* what a path names: "dir", "locked" (a directory that cannot
               \* be opened), "file" or "none"
  open_dirs,   \* the DIR handles that are open
  pc,          \* where the running Out::open / open_compressed / close stands
  out_new,     \* the stream made by `new`, not yet given to byname: <<>> or <<stream>>
  oparg        \* the arguments of the running operation: [filename, kind]

outvars == <<sink, cout_state, out_live, out_byname, out_os, out_myfile, nwritten, bound_by, seg>>
invars  == <<stdin, in_live, in_byname, in_is, in_myfile>>
tovars  == <<to>>
dirvars == <<fs, open_dirs>>
stepvars == <<pc, out_new, oparg>>
othervars == <<tovars, dirvars, stepvars>>
vars    == <<disk, outvars, invars, last, raised, result, othervars>>

----------------------------------------------------------------------------
(* Bounds *)

\* the most values the output targets take in one run
MaxWrites == 2
\* the longest content of an input file
MaxLen == 2

----------------------------------------------------------------------------
(* The environment *)

\* file names; the parent directory of the last one does not exist
Names == {"a", "b", "nodir/f"}
\* names whose parent directory exists, so that the file can be created
CanCreate(fn) == fn \in {"a", "b"}
\* the values written through an output handle
Vals == {"x", "y"}
\* the byte a hole in a file reads as
NUL == "0"
\* the characters of an input: a non-blank character and the newline
NL == "\n"
Chars == {"x", NL}
\* bxz::Compression
Compression == {"z"}
\* the states std::cout is found in
CoutStates == {{}, {"badbit"}, {"eofbit"}}

\* what std::cin holds when the program starts
StdinData == <<"x", NL>>

NoFile == [exists |-> FALSE, data |-> <<>>, fin |-> TRUE]

----------------------------------------------------------------------------
(* std::ios_base::iostate and std::basic_ios *)

badbit  == "badbit"
failbit == "failbit"
eofbit  == "eofbit"
iostate == SUBSET {badbit, failbit, eofbit}

good(st) == st = {}
eof(st)  == eofbit \in st
\* basic_ios::fail(), which is operator!
fail(st) == badbit \in st \/ failbit \in st

\* basic_ios::rdbuf(sb): sets the buffer and calls clear()
ios_rdbuf_noClear(os, sb) == [os EXCEPT !.rdbuf = sb]
ios_rdbuf(os, sb) == [rdbuf |-> sb, state |-> {}]

\* basic_ios::setstate(bits): ORs the bits into the state
setstate_dropped(os, bits) == os
setstate(os, bits) == [os EXCEPT !.state = @ \cup bits]

\* the record of an operation: its name and argument, and what the handle
\* was like when it was called (the state and the buffer of the view; whether
\* the view was on an open owned stream, and at its start in a good state)
Op(op, arg) ==
  [op |-> op, arg |-> arg, prestate |-> {}, rdbuf |-> "", bound |-> FALSE, fresh |-> FALSE]
NoResult == [n |-> 0, val |-> <<>>]

\* the exceptions of the library and of the generic operators
NoError == [kind |-> "none", msg |-> "", name |-> ""]
file_not_writable(fn) == [kind |-> "file_not_writable", msg |-> "is not writable", name |-> fn]
write_error(fn) == [kind |-> "runtime_error", msg |-> "Error writing type", name |-> fn]
cannot_read_from_file(fn) == [kind |-> "cannot_read_from_file", msg |-> "Cannot read from file", name |-> fn]
open_error(fn) == [kind |-> "runtime_error", msg |-> "Cannot read from file", name |-> fn]
directory_does_not_exist(dirpath) ==
  [kind |-> "directory_does_not_exist", msg |-> "does not exist", name |-> dirpath]

----------------------------------------------------------------------------
(* Output file streams *)

Max(a, b) == IF a >= b THEN a ELSE b

\* write(2) of w at offset off of a file holding data
WriteAt(data, off, w) ==
  IF w = <<>> THEN data
  ELSE [i \in 1..Max(Len(data), off + Len(w)) |->
          IF i > off /\ i <= off + Len(w) THEN w[i - off]
          ELSE IF i <= Len(data) THEN data[i] ELSE NUL]

\* new std::ofstream(filename): the stream ...
StdOfstream(fn) ==
  [name |-> fn, kind |-> "plain", isopen |-> CanCreate(fn), pend |-> <<>>,
   off |-> 0, state |-> IF CanCreate(fn) THEN {} ELSE {failbit}]
\* new bxz::ofstream(filename, type, level): the stream ...
BxzOfstream(fn, type) ==
  [name |-> fn, kind |-> type, isopen |-> CanCreate(fn), pend |-> <<>>,
   off |-> 0, state |-> IF CanCreate(fn) THEN {} ELSE {failbit}]
\* ... and what opening it does to the file: created or truncated
Truncate(d, s) ==
  IF s.isopen
    THEN [d EXCEPT ![s.name] = [exists |-> TRUE, data |-> <<>>, fin |-> s.kind = "plain"]]
    ELSE d

\* pubsync() of an owned stream's buffer: pending output goes to the file
SyncDisk(d, s) ==
  IF s.isopen /\ s.pend # <<>>
    THEN [d EXCEPT ![s.name].data = WriteAt(@, s.off, s.pend), ![s.name].exists = TRUE]
    ELSE d
SyncStream(s) ==
  IF s.isopen THEN [s EXCEPT !.off = @ + Len(s.pend), !.pend = <<>>] ELSE s

\* unique_ptr::reset / ~unique_ptr of an owned stream: its destructor writes
\* what is pending (a compressed stream also its trailer) and closes the file
Release(d, byname) ==
  IF byname = <<>> THEN d
  ELSE LET s  == byname[1]
           d1 == SyncDisk(d, s)
       IN IF s.isopen /\ s.kind # "plain" THEN [d1 EXCEPT ![s.name].fin = TRUE] ELSE d1

\* os.flush(): an unformatted output function; its sentry does nothing but
\* set failbit when the view is not good
FlushOs(os) == IF good(os.state) THEN os ELSE setstate(os, {failbit})
FlushByname(os, byname) ==
  IF good(os.state) /\ os.rdbuf = "byname" /\ byname # <<>>
    THEN <<SyncStream(byname[1])>> ELSE byname
FlushDisk(os, byname, d) ==
  IF good(os.state) /\ os.rdbuf = "byname" /\ byname # <<>>
    THEN SyncDisk(d, byname[1]) ELSE d

\* the view of Out::close once repointed: lines 67-68
CloseView_noState(os, cs) == ios_rdbuf(os, "cout")
CloseView(os, cs) == setstate(ios_rdbuf(os, "cout"), cs)

\* the condition under which the generic operators throw
Throws_onFail(st) == fail(st)
Throws(st) == ~good(st) /\ ~eof(st)

----------------------------------------------------------------------------
(* cxxio::Out *)

NoSeg == [st |-> "off", file |-> "", vals |-> <<>>]

\* no second input handle, no path, no operation under way
NoHandle == [live |-> FALSE, byname |-> <<>>, is |-> [rdbuf |-> "cin", state |-> {}], myfile |-> ""]
Paths == {"d1", "d2", "p3", "p4"}
NoArg == [filename |-> "", kind |-> "", prestate |-> {}, owned |-> FALSE]
InitOther ==
  /\ to = NoHandle
  /\ fs = [p \in Paths |-> "none"]
  /\ open_dirs = 0
  /\ pc = "idle"
  /\ out_new = <<>>
  /\ oparg = NoArg

\* Out(std::ostream& stream = std::cout)
Out_ctor_stream ==
  /\ out_live = FALSE
  /\ out_os' = [rdbuf |-> "cout", state |-> {}]
  /\ last' = Op("Out(stream)", "")
  /\ out_byname' = <<>>
  /\ out_myfile' = ""
  /\ out_live' = TRUE
  /\ raised' = NoError
  /\ bound_by' = "Out(stream)"
  /\ seg' = NoSeg
  /\ UNCHANGED <<disk, sink, cout_state, nwritten, invars, result, othervars>>

\* Out(std::string filename)
Out_ctor_file ==
  /\ out_live = FALSE
  /\ \E filename \in Names :
       LET s  == StdOfstream(filename)
           os == [rdbuf |-> "byname", state |-> {}]
       IN /\ disk' = IF fail(os.state) THEN Release(Truncate(disk, s), <<s>>)
                     ELSE Truncate(disk, s)
          /\ out_live' = ~fail(os.state)
          /\ out_byname' = IF fail(os.state) THEN <<>> ELSE <<s>>
          /\ out_os' = os
          /\ out_myfile' = IF fail(os.state) THEN "" ELSE filename
          /\ raised' = IF fail(os.state) THEN file_not_writable(filename) ELSE NoError
          /\ last' = Op("Out(filename)", filename)
  /\ bound_by' = "Out(filename)"
  /\ seg' = NoSeg
  /\ UNCHANGED <<sink, cout_state, nwritten, invars, result, othervars>>

\* void open(const std::string &filename)
Out_open ==
  /\ out_live = TRUE
  /\ \E filename \in Names :
       LET os1 == FlushOs(out_os)
           b1  == FlushByname(out_os, out_byname)
           d1  == FlushDisk(out_os, out_byname, disk)
           s   == StdOfstream(filename)
           d2  == Release(Truncate(d1, s), b1)
           os2 == setstate(ios_rdbuf(os1, "byname"), s.state)
       IN /\ disk' = d2
          /\ out_byname' = <<s>>
          /\ out_os' = os2
          /\ raised' = IF fail(os2.state) THEN file_not_writable(filename) ELSE NoError
          /\ seg' = IF fail(os2.state) THEN NoSeg
                    ELSE [st |-> "open", file |-> filename, vals |-> <<>>]
          /\ last' = [Op("open", filename) EXCEPT !.prestate = out_os.state]
  /\ bound_by' = "open"
  /\ UNCHANGED <<sink, cout_state, nwritten, out_live, out_myfile, invars, result, othervars>>

\* void open_compressed(const std::string &filename, const bxz::Compression &type, const int level)
Out_open_compressed ==
  /\ out_live = TRUE
  /\ \E filename \in Names, type \in Compression :
       LET os1 == FlushOs(out_os)
           b1  == FlushByname(out_os, out_byname)
           d1  == FlushDisk(out_os, out_byname, disk)
           s   == BxzOfstream(filename, type)
           d2  == Release(Truncate(d1, s), b1)
           os2 == setstate(ios_rdbuf(os1, "byname"), s.state)
       IN /\ disk' = d2
          /\ out_byname' = <<s>>
          /\ out_os' = os2
          /\ raised' = IF fail(os2.state) THEN file_not_writable(filename) ELSE NoError
          /\ seg' = IF fail(os2.state) THEN NoSeg
                    ELSE [st |-> "zopen", file |-> filename, vals |-> <<>>]
          /\ last' = [Op("open_compressed", filename) EXCEPT !.prestate = out_os.state]
  /\ bound_by' = "open_compressed"
  /\ UNCHANGED <<sink, cout_state, nwritten, out_live, out_myfile, invars, result, othervars>>

\* void close()
Out_close ==
  /\ out_live = TRUE
  /\ LET b1 == FlushByname(out_os, out_byname)
         d1 == FlushDisk(out_os, out_byname, disk)
     IN /\ disk' = Release(d1, b1)
        /\ out_byname' = <<>>
        /\ out_os' = CloseView(FlushOs(out_os), cout_state)
  /\ raised' = NoError
  /\ last' = [Op("close", "") EXCEPT !.prestate = out_os.state]
  /\ bound_by' = "close"
  /\ seg' = IF seg.st = "open" THEN [seg EXCEPT !.st = "closed"]
            ELSE IF seg.st = "zopen" THEN NoSeg ELSE seg
  /\ UNCHANGED <<sink, cout_state, nwritten, out_live, out_myfile, invars, result, othervars>>

\* void flush()
Out_flush ==
  /\ out_live = TRUE
  /\ out_os' = FlushOs(out_os)
  /\ out_byname' = FlushByname(out_os, out_byname)
  /\ disk' = FlushDisk(out_os, out_byname, disk)
  /\ raised' = NoError
  /\ last' = Op("flush", "")
  /\ UNCHANGED <<sink, cout_state, nwritten, out_live, out_myfile, bound_by, seg, invars, result, othervars>>

\* Out& operator<<(Out &os, T t).  The value t is either one that the stream
\* formats and hands to its buffer, or one whose insertion sets badbit
\* without output (a null std::streambuf*).
Out_write ==
  /\ out_live = TRUE
  /\ nwritten < MaxWrites
  /\ \E t \in Vals, nullbuf \in BOOLEAN :
       LET tofile == out_os.rdbuf = "byname"
           \* the sentry of the inserter
           ok     == good(out_os.state)
           \* the buffer of a file stream that is not open takes nothing
           taken  == ok /\ ~nullbuf /\ (tofile => out_byname[1].isopen)
           os1    == IF ~ok THEN setstate(out_os, {failbit})
                     ELSE IF ~taken THEN setstate(out_os, {badbit})
                     ELSE out_os
       IN /\ out_os' = os1
          /\ out_byname' = IF taken /\ tofile
                             THEN <<[out_byname[1] EXCEPT !.pend = Append(@, t)]>>
                             ELSE out_byname
          /\ sink' = IF taken /\ ~tofile
                       THEN Append(sink, t)
                       ELSE sink
          /\ raised' = IF Throws(os1.state) THEN write_error(out_myfile) ELSE NoError
          /\ seg' = IF taken /\ seg.st \in {"open", "zopen"}
                    THEN [seg EXCEPT !.vals = Append(@, t)] ELSE seg
          /\ nwritten' = IF taken THEN nwritten + 1 ELSE nwritten
          /\ last' = [Op("write", IF nullbuf THEN "nullbuf" ELSE "value")
                        EXCEPT !.prestate = out_os.state]
  /\ UNCHANGED <<disk, cout_state, out_live, out_myfile, bound_by, invars, result, othervars>>

\* ~Out(): the members are destroyed, byname releases the owned stream
Out_dtor ==
  /\ out_live = TRUE
  /\ disk' = Release(disk, out_byname)
  /\ out_live' = FALSE
  /\ out_byname' = <<>>
  /\ out_os' = [rdbuf |-> "cout", state |-> {}]
  /\ out_myfile' = ""
  /\ raised' = NoError
  /\ last' = Op("~Out", "")
  /\ bound_by' = "none"
  /\ seg' = NoSeg
  /\ UNCHANGED <<sink, cout_state, nwritten, invars, result, othervars>>

InitOut ==
  /\ disk = [n \in Names |-> NoFile]
  /\ sink = <<>>
  /\ cout_state \in CoutStates
  /\ out_live = FALSE
  /\ out_byname = <<>>
  /\ out_os = [rdbuf |-> "cout", state |-> {}]
  /\ out_myfile = ""
  /\ stdin = [data |-> StdinData, pos |-> 0]
  /\ in_live = "none"
  /\ in_byname = <<>>
  /\ in_is = [rdbuf |-> "cin", state |-> {}]
  /\ in_myfile = ""
  /\ last = Op("none", "")
  /\ raised = NoError
  /\ result = NoResult
  /\ nwritten = 0
  /\ bound_by = "none"
  /\ seg = NoSeg
  /\ InitOther

NextOut ==
  \/ Out_ctor_stream
  \/ Out_ctor_file
  \/ Out_open
  \/ Out_open_compressed
  \/ Out_close
  \/ Out_flush
  \/ Out_write
  \/ Out_dtor

SpecOut == InitOut /\ [][NextOut]_vars

----------------------------------------------------------------------------
(* Input streams *)

Contents(n) == UNION {[1..k -> Chars] : k \in 0..n}
Min(S) == CHOOSE x \in S : \A y \in S : x <= y

CanRead(d, fn) == fn \in Names /\ d[fn].exists

\* new bxz::ifstream(filename)
BxzIfstream(d, fn) ==
  [name |-> fn, isopen |-> CanRead(d, fn), pos |-> 0,
   state |-> IF CanRead(d, fn) THEN {} ELSE {failbit}]

\* std::getline(is, line) on a source data read up to pos, in state st
Getline_needsNewline(data, pos, st) ==
  IF ~good(st) THEN [pos |-> pos, state |-> st \cup {failbit}, val |-> <<>>]
  ELSE LET nls == {j \in (pos + 1)..Len(data) : data[j] = NL}
       IN IF nls # {}
            THEN [pos |-> Min(nls), state |-> {}, val |-> SubSeq(data, pos + 1, Min(nls) - 1)]
            ELSE [pos |-> Len(data), state |-> {eofbit, failbit}, val |-> <<>>]
Getline(data, pos, st) ==
  IF ~good(st) THEN [pos |-> pos, state |-> st \cup {failbit}, val |-> <<>>]
  ELSE LET nls == {j \in (pos + 1)..Len(data) : data[j] = NL}
       IN IF nls # {}
            THEN [pos |-> Min(nls), state |-> {}, val |-> SubSeq(data, pos + 1, Min(nls) - 1)]
          ELSE IF pos = Len(data)
            THEN [pos |-> pos, state |-> {eofbit, failbit}, val |-> <<>>]
          ELSE [pos |-> Len(data), state |-> {eofbit}, val |-> SubSeq(data, pos + 1, Len(data))]

\* is.stream() >> t for a std::string t ("string") or an int t ("int"): the
\* sentry skips white space; a string takes the characters up to the next
\* white space, an int finds no digit in a non-blank character
Extract(data, pos, st, T) ==
  IF ~good(st) THEN [pos |-> pos, state |-> st \cup {failbit}, val |-> <<>>]
  ELSE LET nonws == {j \in (pos + 1)..Len(data) : data[j] # NL}
       IN IF nonws = {}
            THEN [pos |-> Len(data), state |-> {eofbit, failbit}, val |-> <<>>]
          ELSE IF T = "int"
            THEN [pos |-> Min(nonws) - 1, state |-> {failbit}, val |-> <<>>]
          ELSE LET b   == Min(nonws)
                   nls == {j \in (b + 1)..Len(data) : data[j] = NL}
               IN IF nls = {}
                    THEN [pos |-> Len(data), state |-> {eofbit}, val |-> SubSeq(data, b, Len(data))]
                    ELSE [pos |-> Min(nls) - 1, state |-> {}, val |-> SubSeq(data, b, Min(nls) - 1)]

\* the loop of count_lines: getline until it fails
RECURSIVE CountLoop(_, _, _, _)
CountLoop(data, pos, st, n) ==
  LET g == Getline(data, pos, st)
  IN IF fail(g.state) THEN [pos |-> g.pos, state |-> g.state, n |-> n]
     ELSE CountLoop(data, g.pos, g.state, n + 1)

\* the lines a caller gets who reads is.stream() with getline to the end
RECURSIVE ReadLines(_, _, _)
ReadLines(data, pos, st) ==
  LET g == Getline(data, pos, st)
  IN IF fail(g.state) THEN <<>>
     ELSE <<g.val>> \o ReadLines(data, g.pos, g.state)

\* what the view reads from, and how far it has been read
Src(is, byname) ==
  IF is.rdbuf = "byname" THEN (IF byname[1].isopen THEN disk[byname[1].name].data ELSE <<>>)
  ELSE IF is.rdbuf = "cin" THEN stdin.data
  ELSE <<>>
Pos(is, byname) ==
  IF is.rdbuf = "byname" THEN byname[1].pos
  ELSE IF is.rdbuf = "cin" THEN stdin.pos
  ELSE 0
\* the owned stream and std::cin once the view has been read up to pos
BynameAt(is, byname, pos) ==
  IF is.rdbuf = "byname" THEN <<[byname[1] EXCEPT !.pos = pos]>> ELSE byname
StdinAt(is, pos) ==
  IF is.rdbuf = "cin" THEN [stdin EXCEPT !.pos = pos] ELSE stdin

\* the view of In::reset_state once repointed: lines 85-86
ResetView_noRepoint(is, s) == setstate([is EXCEPT !.state = {}], s.state)
ResetView_noClear(is, s) == setstate([is EXCEPT !.rdbuf = "byname"], s.state)
ResetView(is, s) == setstate(ios_rdbuf(is, "byname"), s.state)

\* the view was on an open owned stream / at its start and good
Bound(is, byname) == is.rdbuf = "byname" /\ byname # <<>> /\ byname[1].isopen
Fresh(is, byname) == Bound(is, byname) /\ byname[1].pos = 0 /\ good(is.state)

----------------------------------------------------------------------------
(* cxxio::In *)

\* In(std::istream& stream = std::cin)
In_ctor_stream ==
  /\ in_live = "none"
  /\ in_live' = "live"
  /\ in_byname' = <<>>
  /\ in_is' = [rdbuf |-> "cin", state |-> {}]
  /\ in_myfile' = ""
  /\ last' = Op("In(stream)", "")
  /\ raised' = NoError
  /\ result' = NoResult
  /\ UNCHANGED <<disk, stdin, outvars, othervars>>

\* In(std::string filename): is(std::cout.rdbuf()), myfile(filename), then
\* open(filename); when open throws no object is constructed
In_ctor_file ==
  /\ in_live = "none"
  /\ \E filename \in Names :
       LET s  == BxzIfstream(disk, filename)
           is == ResetView([rdbuf |-> "cout", state |-> {}], s)
       IN /\ in_live' = IF fail(is.state) THEN "none" ELSE "live"
          /\ in_byname' = IF fail(is.state) THEN <<>> ELSE <<s>>
          /\ in_is' = IF fail(is.state) THEN [rdbuf |-> "cin", state |-> {}] ELSE is
          /\ in_myfile' = IF fail(is.state) THEN "" ELSE filename
          /\ raised' = IF fail(is.state) THEN open_error(filename) ELSE NoError
          /\ last' = Op("In(filename)", filename)
  /\ result' = NoResult
  /\ UNCHANGED <<disk, stdin, outvars, othervars>>

\* void open(const std::string &filename)
In_open ==
  /\ in_live = "live"
  /\ \E filename \in Names :
       LET s  == BxzIfstream(disk, filename)
           is == ResetView(in_is, s)
       IN /\ in_myfile' = filename
          /\ in_byname' = <<s>>
          /\ in_is' = is
          /\ raised' = IF fail(is.state) THEN open_error(filename) ELSE NoError
          /\ last' = Op("In::open", filename)
  /\ result' = NoResult
  /\ UNCHANGED <<disk, stdin, in_live, outvars, othervars>>

\* void close(): the owned stream is destroyed, the view keeps its buffer
In_close ==
  /\ in_live = "live"
  /\ in_byname' = <<>>
  /\ in_is' = IF in_is.rdbuf = "byname" THEN [in_is EXCEPT !.rdbuf = "dangling"] ELSE in_is
  /\ last' = Op("In::close", "")
  /\ raised' = NoError
  /\ result' = NoResult
  /\ UNCHANGED <<disk, stdin, in_live, in_myfile, outvars, othervars>>

\* void rewind()
In_rewind ==
  /\ in_live = "live"
  /\ LET s == BxzIfstream(disk, in_myfile)
     IN /\ in_byname' = <<s>>
        /\ in_is' = ResetView(in_is, s)
  /\ last' = [Op("rewind", "") EXCEPT !.prestate = in_is.state, !.rdbuf = in_is.rdbuf]
  /\ raised' = NoError
  /\ result' = NoResult
  /\ UNCHANGED <<disk, stdin, in_live, in_myfile, outvars, othervars>>

\* a read through a view whose buffer has been destroyed is undefined: the
\* process dies, or the read leaves any state and any value
UndefinedRead(op) ==
  /\ in_is.rdbuf = "dangling"
  /\ \/ /\ in_live' = "crashed"
        /\ result' = NoResult
        /\ UNCHANGED <<in_is>>
     \/ /\ \E st \in iostate : in_is' = [in_is EXCEPT !.state = st]
        /\ \E v \in Contents(1) : result' = [n |-> 0, val |-> v]
        /\ UNCHANGED <<in_live>>
  /\ raised' = IF in_live' = "live" /\ op = "read" /\ Throws(in_is'.state)
                 THEN write_error(in_myfile) ELSE NoError
  /\ last' = Op(op, "")
  /\ UNCHANGED <<disk, stdin, in_byname, in_myfile, outvars, othervars>>

\* template<typename T> T count_lines()
In_count_lines ==
  /\ in_live = "live"
  /\ \/ /\ in_is.rdbuf # "dangling"
        /\ LET c  == CountLoop(Src(in_is, in_byname), Pos(in_is, in_byname), in_is.state, 0)
               is == [in_is EXCEPT !.state = c.state]
               s  == BxzIfstream(disk, in_myfile)
           IN /\ stdin' = StdinAt(in_is, c.pos)
              /\ in_byname' = <<s>>
              /\ in_is' = ResetView(is, s)
              /\ result' = [n |-> c.n, val |-> <<>>]
        /\ last' = [Op("count_lines", "") EXCEPT !.prestate = in_is.state,
                      !.rdbuf = in_is.rdbuf,
                      !.bound = Bound(in_is, in_byname), !.fresh = Fresh(in_is, in_byname)]
        /\ raised' = NoError
        /\ UNCHANGED <<disk, in_live, in_myfile, outvars, othervars>>
     \/ /\ in_is.rdbuf = "dangling"
        /\ \/ /\ in_live' = "crashed"
              /\ result' = NoResult
              /\ UNCHANGED <<in_is, in_byname>>
           \/ /\ \E k \in 0..MaxLen : result' = [n |-> k, val |-> <<>>]
              /\ LET s == BxzIfstream(disk, in_myfile)
                 IN /\ in_byname' = <<s>>
                    /\ in_is' = ResetView(in_is, s)
              /\ UNCHANGED <<in_live>>
        /\ last' = [Op("count_lines", "") EXCEPT !.rdbuf = in_is.rdbuf]
        /\ raised' = NoError
        /\ UNCHANGED <<disk, stdin, in_myfile, outvars, othervars>>

\* In& operator>>(In &is, T &t)
In_read ==
  /\ in_live = "live"
  /\ \/ /\ in_is.rdbuf # "dangling"
        /\ \E T \in {"string", "int"} :
             LET e == Extract(Src(in_is, in_byname), Pos(in_is, in_byname), in_is.state, T)
             IN /\ in_is' = [in_is EXCEPT !.state = e.state]
                /\ in_byname' = BynameAt(in_is, in_byname, e.pos)
                /\ stdin' = StdinAt(in_is, e.pos)
                /\ result' = [n |-> 0, val |-> e.val]
                /\ raised' = IF Throws(e.state) THEN write_error(in_myfile) ELSE NoError
                /\ last' = [Op("read", T) EXCEPT !.prestate = in_is.state]
        /\ UNCHANGED <<disk, in_live, in_myfile, outvars, othervars>>
     \/ UndefinedRead("read")

\* std::getline(in.stream(), line): a caller reading a line through the view
In_getline ==
  /\ in_live = "live"
  /\ \/ /\ in_is.rdbuf # "dangling"
        /\ LET g == Getline(Src(in_is, in_byname), Pos(in_is, in_byname), in_is.state)
           IN /\ in_is' = [in_is EXCEPT !.state = g.state]
              /\ in_byname' = BynameAt(in_is, in_byname, g.pos)
              /\ stdin' = StdinAt(in_is, g.pos)
              /\ result' = [n |-> 0, val |-> g.val]
        /\ raised' = NoError
        /\ last' = [Op("getline", "") EXCEPT !.prestate = in_is.state]
        /\ UNCHANGED <<disk, in_live, in_myfile, outvars, othervars>>
     \/ UndefinedRead("getline")

\* ~In()
In_dtor ==
  /\ in_live = "live"
  /\ in_live' = "none"
  /\ in_byname' = <<>>
  /\ in_is' = [rdbuf |-> "cin", state |-> {}]
  /\ in_myfile' = ""
  /\ last' = Op("~In", "")
  /\ raised' = NoError
  /\ result' = NoResult
  /\ UNCHANGED <<disk, stdin, outvars, othervars>>

\* the files an input handle finds: "a" and "b" hold any content
InitIn ==
  /\ \E ca \in Contents(MaxLen), cb \in Contents(MaxLen) :
       disk = [n \in Names |->
                 IF n = "a" THEN [exists |-> TRUE, data |-> ca, fin |-> TRUE]
                 ELSE IF n = "b" THEN [exists |-> TRUE, data |-> cb, fin |-> TRUE]
                 ELSE NoFile]
  /\ sink = <<>>
  /\ cout_state = {}
  /\ out_live = FALSE
  /\ out_byname = <<>>
  /\ out_os = [rdbuf |-> "cout", state |-> {}]
  /\ out_myfile = ""
  /\ stdin = [data |-> StdinData, pos |-> 0]
  /\ in_live = "none"
  /\ in_byname = <<>>
  /\ in_is = [rdbuf |-> "cin", state |-> {}]
  /\ in_myfile = ""
  /\ last = Op("none", "")
  /\ raised = NoError
  /\ result = NoResult
  /\ nwritten = 0
  /\ bound_by = "none"
  /\ seg = NoSeg
  /\ InitOther

NextIn ==
  \/ In_ctor_stream
  \/ In_ctor_file
  \/ In_open
  \/ In_close
  \/ In_rewind
  \/ In_count_lines
  \/ In_read
  \/ In_getline
  \/ In_dtor

SpecIn == InitIn /\ [][NextIn]_vars

----------------------------------------------------------------------------
(* Properties of the output handle, checked under SpecOut *)

\* the file the handle is bound to, "" when it is bound to an external stream
BoundName == IF out_byname # <<>> THEN out_byname[1].name ELSE ""

\* C1: constructing Out(filename) on a file that cannot be opened throws
\* file_not_writable and produces no handle.
C1_CtorThrowsNotWritable ==
  (last.op = "Out(filename)" /\ ~CanCreate(last.arg))
    => (raised = file_not_writable(last.arg) /\ out_live = FALSE)

\* C2: filename() is the name of the file the handle is bound to, and empty
\* when the handle is bound to an external stream.
C2_FilenameIsBoundFile ==
  out_live = TRUE => out_myfile = BoundName

\* C3: once open(filename), some writes and close() are done, the file holds
\* exactly the values written between the open and the close, in order.
C3_FileHoldsTheWrites ==
  seg.st = "closed" => (disk[seg.file].exists /\ disk[seg.file].data = seg.vals)

\* C4: an open or open_compressed that cannot open its target throws
\* file_not_writable, and every generic write made on the handle before the
\* next open or close throws as well.
C4_FailedOpenFailsWrites ==
  /\ (last.op \in {"open", "open_compressed"} /\ ~CanCreate(last.arg))
       => raised = file_not_writable(last.arg)
  /\ (last.op = "write" /\ bound_by \in {"open", "open_compressed"}
        /\ out_byname # <<>> /\ ~out_byname[1].isopen)
       => raised.kind = "runtime_error"
C4_Witness ==
  /\ last.op = "write" /\ bound_by = "open"
  /\ out_byname # <<>> /\ ~out_byname[1].isopen
  /\ raised.kind = "runtime_error"

\* C5: after close() the handle owns no stream, its view is on the buffer of
\* std::cout and the state of the view is that of std::cout.
C5_CloseRebindsToCout ==
  last.op = "close"
    => (out_byname = <<>> /\ out_os.rdbuf = "cout" /\ out_os.state = cout_state)
C5_Witness ==
  /\ last.op = "close" /\ fail(last.prestate) /\ cout_state = {}
  /\ out_os.state = {} /\ out_os.rdbuf = "cout"

\* C7: the error of a failed generic write carries the name of the file the
\* handle is bound to (empty for an external stream).
C7_ErrorNamesBoundTarget ==
  (last.op = "write" /\ raised # NoError) => raised.name = BoundName

----------------------------------------------------------------------------
(* The generic operators, checked under SpecXfer: an output handle on
   std::cout and an input handle on a file, written to and read from *)

InitXfer ==
  /\ \E ca \in Contents(MaxLen) :
       disk = [n \in Names |->
                 IF n = "a" THEN [exists |-> TRUE, data |-> ca, fin |-> TRUE] ELSE NoFile]
  /\ sink = <<>>
  /\ cout_state \in CoutStates
  /\ out_live = FALSE
  /\ out_byname = <<>>
  /\ out_os = [rdbuf |-> "cout", state |-> {}]
  /\ out_myfile = ""
  /\ stdin = [data |-> StdinData, pos |-> 0]
  /\ in_live = "none"
  /\ in_byname = <<>>
  /\ in_is = [rdbuf |-> "cin", state |-> {}]
  /\ in_myfile = ""
  /\ last = Op("none", "")
  /\ raised = NoError
  /\ result = NoResult
  /\ nwritten = 0
  /\ bound_by = "none"
  /\ seg = NoSeg
  /\ InitOther

NextXfer ==
  \/ Out_ctor_stream
  \/ Out_close
  \/ Out_write
  \/ In_ctor_file
  \/ In_rewind
  \/ In_read

SpecXfer == InitXfer /\ [][NextXfer]_vars

\* C6: a generic write or read throws exactly when the state it leaves the
\* view in is neither good nor has the end-of-stream flag; reaching the end
\* of the stream, with or without a failed extraction, does not throw.
C6_ThrowsIffHardFailure ==
  /\ last.op = "write"
       => ((raised # NoError) <=> (out_os.state # {} /\ eofbit \notin out_os.state))
  /\ last.op = "read"
       => ((raised # NoError) <=> (in_is.state # {} /\ eofbit \notin in_is.state))
C6_Witness ==
  /\ last.op = "read" /\ last.prestate = {}
  /\ in_is.state = {eofbit, failbit} /\ raised = NoError

----------------------------------------------------------------------------
(* Properties of the input handle, checked under SpecIn *)

NumNewlines(data) == Cardinality({j \in 1..Len(data) : data[j] = NL})
\* the lines of a content: one per newline, and the rest after the last one
NumLines(data) ==
  NumNewlines(data) + (IF data # <<>> /\ data[Len(data)] # NL THEN 1 ELSE 0)

\* the lines read from a handle just constructed on the file fn
FreshLines(fn) ==
  LET s  == BxzIfstream(disk, fn)
      is == ResetView([rdbuf |-> "cout", state |-> {}], s)
  IN ReadLines(Src(is, <<s>>), Pos(is, <<s>>), is.state)

\* C8: In(filename) and In::open throw exceptions::cannot_read_from_file,
\* carrying the file name, when the file cannot be opened.
C8_OpenThrowsCannotReadFromFile ==
  (last.op \in {"In(filename)", "In::open"} /\ ~CanRead(disk, last.arg))
    => raised = cannot_read_from_file(last.arg)

\* C9: count_lines on a freshly opened handle returns the number of newline
\* characters of the file.
C9_CountIsNewlineCount ==
  (last.op = "count_lines" /\ last.fresh)
    => result.n = NumNewlines(disk[in_myfile].data)
\* C9, amended: count_lines on a freshly opened handle returns the number of
\* lines of the file: its newline characters, plus one when the content is
\* not empty and does not end in a newline.
C9_CountIsLineCount ==
  (last.op = "count_lines" /\ last.fresh)
    => result.n = NumLines(disk[in_myfile].data)
C9_Witness ==
  /\ last.op = "count_lines" /\ last.fresh
  /\ disk[in_myfile].data # <<>>
  /\ disk[in_myfile].data[Len(disk[in_myfile].data)] # NL
  /\ result.n = NumNewlines(disk[in_myfile].data) + 1

\* C10: after count_lines on a handle bound to a file, at whatever read
\* position and in whatever state, reading the stream to the end gives the
\* lines a freshly opened handle on the file gives; the view is good again.
C10_CountThenReadIsFreshRead ==
  (last.op = "count_lines" /\ last.bound)
    => /\ in_is.rdbuf = "byname"
       /\ good(in_is.state)
       /\ ReadLines(Src(in_is, in_byname), Pos(in_is, in_byname), in_is.state)
            = FreshLines(in_myfile)
C10_Witness ==
  /\ last.op = "count_lines" /\ last.bound /\ eofbit \in last.prestate
  /\ Len(FreshLines(in_myfile)) = 2
  /\ ReadLines(Src(in_is, in_byname), Pos(in_is, in_byname), in_is.state)
       = FreshLines(in_myfile)

\* C11: count_lines leaves the handle ready to be read again: the view is
\* not failed and is on the source it was on before the call, for a handle
\* on a named file and for a default-constructed handle on std::cin.
C11_CountLeavesHandleReady ==
  (/\ last.op = "count_lines" /\ in_live = "live"
   /\ \/ last.rdbuf = "cin"
      \/ last.rdbuf = "byname" /\ last.bound)
    => /\ ~fail(in_is.state)
       /\ last.rdbuf = "cin" => in_is.rdbuf = "cin"
       /\ last.rdbuf = "byname"
            => (in_is.rdbuf = "byname" /\ in_byname[1].isopen /\ in_byname[1].name = in_myfile)

\* C12: rewind() on a handle whose stored file can be read, whatever was done
\* before, leaves the handle owning a fresh stream at byte 0 with a good view
\* on it, so that the next line read is the first line of the file and a
\* second rewind() changes nothing.
C12_RewindIsFreshAndIdempotent ==
  (last.op = "rewind" /\ CanRead(disk, in_myfile))
    => /\ in_byname = <<BxzIfstream(disk, in_myfile)>>
       /\ in_byname[1].isopen /\ in_byname[1].pos = 0
       /\ in_is = [rdbuf |-> "byname", state |-> {}]
       /\ Getline(Src(in_is, in_byname), Pos(in_is, in_byname), in_is.state)
            = Getline(disk[in_myfile].data, 0, {})
       /\ ResetView(in_is, BxzIfstream(disk, in_myfile)) = in_is
C12_Witness ==
  /\ last.op = "rewind" /\ last.rdbuf = "dangling" /\ fail(last.prestate)
  /\ CanRead(disk, in_myfile) /\ disk[in_myfile].data # <<>>
  /\ in_byname # <<>> /\ in_byname[1].pos = 0 /\ in_is = [rdbuf |-> "byname", state |-> {}]

----------------------------------------------------------------------------
(* Move construction of an input handle: In(In&& in).  The handle `to` is
   the one constructed from the first handle. *)

\* the stream the new handle owns: this->open(in.filename()) opens its own
MovedStream_shared(d, byname, fn) == IF byname # <<>> THEN byname[1] ELSE BxzIfstream(d, fn)
MovedStream(d, byname, fn) == BxzIfstream(d, fn)

\* In(In&& in): is(std::cout.rdbuf()), then open(in.filename()) unless the
\* name is empty; when open throws no object is constructed
In_move ==
  /\ in_live = "live"
  /\ to.live = FALSE
  /\ LET is0 == [rdbuf |-> "cout", state |-> {}]
         s   == MovedStream(disk, in_byname, in_myfile)
         is1 == ResetView(is0, s)
     IN IF in_myfile = ""
          THEN /\ to' = [live |-> TRUE, byname |-> <<>>, is |-> is0, myfile |-> ""]
               /\ raised' = NoError
          ELSE IF fail(is1.state)
            THEN /\ to' = NoHandle
                 /\ raised' = open_error(in_myfile)
            ELSE /\ to' = [live |-> TRUE, byname |-> <<s>>, is |-> is1, myfile |-> in_myfile]
                 /\ raised' = NoError
  /\ last' = Op("In(In&&)", in_myfile)
  /\ result' = NoResult
  /\ UNCHANGED <<disk, invars, outvars, dirvars, stepvars>>

\* std::getline(to.stream(), line)
To_getline ==
  /\ to.live = TRUE
  /\ in_live # "crashed"
  /\ \/ /\ to.is.rdbuf # "dangling"
        /\ LET g == Getline(Src(to.is, to.byname), Pos(to.is, to.byname), to.is.state)
           IN /\ to' = [to EXCEPT !.is.state = g.state,
                                  !.byname = BynameAt(to.is, to.byname, g.pos)]
              /\ result' = [n |-> 0, val |-> g.val]
        /\ UNCHANGED <<in_live>>
     \/ /\ to.is.rdbuf = "dangling"
        /\ \/ /\ in_live' = "crashed"
              /\ to' = [to EXCEPT !.live = FALSE]
              /\ result' = NoResult
           \/ /\ \E st \in iostate : to' = [to EXCEPT !.is.state = st]
              /\ \E v \in Contents(1) : result' = [n |-> 0, val |-> v]
              /\ UNCHANGED <<in_live>>
  /\ last' = Op("to.getline", "")
  /\ raised' = NoError
  /\ UNCHANGED <<disk, stdin, in_byname, in_is, in_myfile, outvars, dirvars, stepvars>>

\* to.rewind()
To_rewind ==
  /\ to.live = TRUE
  /\ in_live # "crashed"
  /\ LET s == BxzIfstream(disk, to.myfile)
     IN to' = [to EXCEPT !.byname = <<s>>, !.is = ResetView(to.is, s)]
  /\ last' = Op("to.rewind", "")
  /\ raised' = NoError
  /\ result' = NoResult
  /\ UNCHANGED <<disk, invars, outvars, dirvars, stepvars>>

\* to.close()
To_close ==
  /\ to.live = TRUE
  /\ in_live # "crashed"
  /\ to' = [to EXCEPT !.byname = <<>>,
                      !.is.rdbuf = IF @ = "byname" THEN "dangling" ELSE @]
  /\ last' = Op("to.close", "")
  /\ raised' = NoError
  /\ result' = NoResult
  /\ UNCHANGED <<disk, invars, outvars, dirvars, stepvars>>

\* the new handle is destroyed
To_dtor ==
  /\ to.live = TRUE
  /\ in_live # "crashed"
  /\ to' = NoHandle
  /\ last' = Op("to.~In", "")
  /\ raised' = NoError
  /\ result' = NoResult
  /\ UNCHANGED <<disk, invars, outvars, dirvars, stepvars>>

\* one file, "a", holds any content
InitMove ==
  /\ \E ca \in Contents(MaxLen) :
       disk = [n \in Names |->
                 IF n = "a" THEN [exists |-> TRUE, data |-> ca, fin |-> TRUE] ELSE NoFile]
  /\ sink = <<>>
  /\ cout_state = {}
  /\ out_live = FALSE
  /\ out_byname = <<>>
  /\ out_os = [rdbuf |-> "cout", state |-> {}]
  /\ out_myfile = ""
  /\ stdin = [data |-> StdinData, pos |-> 0]
  /\ in_live = "none"
  /\ in_byname = <<>>
  /\ in_is = [rdbuf |-> "cin", state |-> {}]
  /\ in_myfile = ""
  /\ last = Op("none", "")
  /\ raised = NoError
  /\ result = NoResult
  /\ nwritten = 0
  /\ bound_by = "none"
  /\ seg = NoSeg
  /\ InitOther

NextMove ==
  \/ In_ctor_stream
  \/ In_ctor_file
  \/ In_getline
  \/ In_rewind
  \/ In_close
  \/ In_move
  \/ To_getline
  \/ To_rewind
  \/ To_close
  \/ To_dtor

SpecMove == InitMove /\ [][NextMove]_vars

\* the lines each handle has still to give
InLines == ReadLines(Src(in_is, in_byname), Pos(in_is, in_byname), in_is.state)
ToLines == ReadLines(Src(to.is, to.byname), Pos(to.is, to.byname), to.is.state)
ToOps == {"to.getline", "to.rewind", "to.close", "to.~In"}
InOps == {"getline", "rewind", "In::close"}

\* C13: a handle move-constructed from a source with an empty file name is
\* what a default-constructed handle is: on std::cin, no file name, no owned
\* stream.
C13_MoveOfUnnamedIsOnCin ==
  (last.op = "In(In&&)" /\ last.arg = "")
    => /\ to.live = TRUE
       /\ to.is.rdbuf = "cin"
       /\ to.myfile = ""
       /\ to.byname = <<>>

\* C14: move construction from a source with a file name is clone by reopen:
\* the new handle stores the name and owns its own stream at byte 0, the
\* source keeps its stream, name and position, and from then on what is done
\* to one handle changes nothing of the other.
C14_MoveIsCloneByReopen ==
  [][/\ (last'.op = "In(In&&)" /\ last'.arg # "" /\ to'.live)
          => /\ to'.myfile = in_myfile
             /\ to'.byname = <<[name |-> in_myfile, isopen |-> TRUE, pos |-> 0, state |-> {}]>>
             /\ to'.is = [rdbuf |-> "byname", state |-> {}]
             /\ UNCHANGED <<in_live, in_byname, in_is, in_myfile, stdin>>
     /\ (last'.op \in ToOps /\ in_live' # "crashed")
          => /\ UNCHANGED <<in_live, in_byname, in_is, in_myfile, stdin>>
             /\ InLines' = InLines
     /\ (last'.op \in InOps /\ to.live /\ in_live' # "crashed")
          => /\ to' = to
             /\ ToLines' = ToLines
    ]_vars
C14_Witness ==
  /\ last.op = "In(In&&)" /\ to.live /\ to.myfile = "a"
  /\ in_byname # <<>> /\ in_byname[1].pos > 0
  /\ to.byname # <<>> /\ to.byname[1].pos = 0
  /\ Len(ToLines) > Len(InLines)

----------------------------------------------------------------------------
(* Out::open, Out::open_compressed and Out::close statement by statement *)

\* the stream that `new` makes at line 50 or at line 58
NewStream(arg) ==
  IF arg.kind = "plain" THEN StdOfstream(arg.filename)
  ELSE BxzOfstream(arg.filename, arg.kind)

\* the view once the stream whose buffer it points to has been destroyed
Orphaned(os, byname) ==
  IF os.rdbuf = "byname" /\ byname # <<>> THEN [os EXCEPT !.rdbuf = "released"] ELSE os

\* os.rdbuf(this->byname->rdbuf()): lines 51 and 59
RepointView_kept(os) == [os EXCEPT !.state = {}]
RepointView(os) == ios_rdbuf(os, "byname")

\* lines 49 and 57: os.flush()
Out_open_flush ==
  /\ pc = "idle" /\ out_live = TRUE
  /\ \E filename \in Names, kind \in {"plain"} \cup Compression :
       oparg' = [filename |-> filename, kind |-> kind,
                 prestate |-> out_os.state, owned |-> out_byname # <<>>]
  /\ out_os' = FlushOs(out_os)
  /\ out_byname' = FlushByname(out_os, out_byname)
  /\ disk' = FlushDisk(out_os, out_byname, disk)
  /\ pc' = "new"
  /\ UNCHANGED <<sink, cout_state, nwritten, out_live, out_myfile, bound_by, seg,
                 invars, last, raised, result, tovars, dirvars, out_new>>

\* lines 50 and 58, the argument of reset: new std::ofstream(filename),
\* new bxz::ofstream(filename, type, level)
Out_open_new ==
  /\ pc = "new"
  /\ out_new' = <<NewStream(oparg)>>
  /\ disk' = Truncate(disk, NewStream(oparg))
  /\ pc' = "reset"
  /\ UNCHANGED <<sink, outvars, invars, last, raised, result, tovars, dirvars, oparg>>

\* lines 50 and 58, the call: byname.reset(...) takes the new stream and
\* destroys the old one
Out_open_reset ==
  /\ pc = "reset"
  /\ disk' = Release(disk, out_byname)
  /\ out_os' = Orphaned(out_os, out_byname)
  /\ out_byname' = out_new
  /\ out_new' = <<>>
  /\ pc' = "rdbuf"
  /\ UNCHANGED <<sink, cout_state, nwritten, out_live, out_myfile, bound_by, seg,
                 invars, last, raised, result, tovars, dirvars, oparg>>

\* lines 51 and 59
Out_open_rdbuf ==
  /\ pc = "rdbuf"
  /\ out_os' = RepointView(out_os)
  /\ pc' = "setstate"
  /\ UNCHANGED <<disk, sink, cout_state, nwritten, out_live, out_byname, out_myfile,
                 bound_by, seg, invars, last, raised, result, tovars, dirvars,
                 out_new, oparg>>

\* lines 52-54 and 60-62: os.setstate(byname->rdstate()); if (!os) throw
Out_open_setstate ==
  /\ pc = "setstate"
  /\ LET os2 == setstate(out_os, out_byname[1].state)
     IN /\ out_os' = os2
        /\ raised' = IF fail(os2.state) THEN file_not_writable(oparg.filename) ELSE NoError
        /\ seg' = IF fail(os2.state) THEN NoSeg
                  ELSE [st |-> IF oparg.kind = "plain" THEN "open" ELSE "zopen",
                        file |-> oparg.filename, vals |-> <<>>]
  /\ last' = [Op(IF oparg.kind = "plain" THEN "open" ELSE "open_compressed", oparg.filename)
                EXCEPT !.prestate = oparg.prestate, !.bound = oparg.owned]
  /\ bound_by' = IF oparg.kind = "plain" THEN "open" ELSE "open_compressed"
  /\ pc' = "idle"
  /\ oparg' = NoArg
  /\ UNCHANGED <<disk, sink, cout_state, nwritten, out_live, out_byname, out_myfile,
                 invars, result, tovars, dirvars, out_new>>

\* line 65: os.flush()
Out_close_flush ==
  /\ pc = "idle" /\ out_live = TRUE
  /\ oparg' = [NoArg EXCEPT !.prestate = out_os.state, !.owned = out_byname # <<>>]
  /\ out_os' = FlushOs(out_os)
  /\ out_byname' = FlushByname(out_os, out_byname)
  /\ disk' = FlushDisk(out_os, out_byname, disk)
  /\ pc' = "c_reset"
  /\ UNCHANGED <<sink, cout_state, nwritten, out_live, out_myfile, bound_by, seg,
                 invars, last, raised, result, tovars, dirvars, out_new>>

\* line 66: byname.reset()
Out_close_reset ==
  /\ pc = "c_reset"
  /\ disk' = Release(disk, out_byname)
  /\ out_os' = Orphaned(out_os, out_byname)
  /\ out_byname' = <<>>
  /\ pc' = "c_rdbuf"
  /\ UNCHANGED <<sink, cout_state, nwritten, out_live, out_myfile, bound_by, seg,
                 invars, last, raised, result, tovars, dirvars, out_new, oparg>>

\* lines 67-68: os.rdbuf(std::cout.rdbuf()); os.setstate(std::cout.rdstate())
Out_close_rdbuf ==
  /\ pc = "c_rdbuf"
  /\ out_os' = CloseView(out_os, cout_state)
  /\ raised' = NoError
  /\ last' = [Op("close", "") EXCEPT !.prestate = oparg.prestate, !.bound = oparg.owned]
  /\ bound_by' = "close"
  /\ seg' = IF seg.st = "open" THEN [seg EXCEPT !.st = "closed"]
            ELSE IF seg.st = "zopen" THEN NoSeg ELSE seg
  /\ pc' = "idle"
  /\ oparg' = NoArg
  /\ UNCHANGED <<disk, sink, cout_state, nwritten, out_live, out_byname, out_myfile,
                 invars, result, tovars, dirvars, out_new>>

\* between two calls of the handle's operations
Idle == pc = "idle"

NextSteps ==
  \/ Idle /\ Out_ctor_stream
  \/ Idle /\ Out_ctor_file
  \/ Idle /\ Out_flush
  \/ Idle /\ Out_write
  \/ Idle /\ Out_dtor
  \/ Out_open_flush
  \/ Out_open_new
  \/ Out_open_reset
  \/ Out_open_rdbuf
  \/ Out_open_setstate
  \/ Out_close_flush
  \/ Out_close_reset
  \/ Out_close_rdbuf

SpecSteps == InitOut /\ [][NextSteps]_vars

\* the view points to the buffer of std::cout or to that of the owned stream
ViewIsBound ==
  \/ out_os.rdbuf = "cout"
  \/ out_os.rdbuf = "byname" /\ out_byname # <<>>

\* C17: in open and open_compressed the old stream is released before the
\* new one is constructed: no new stream exists while the old one is still
\* held, and the file is not opened (and truncated) before the old stream
\* wrote its last output.
C17_OldReleasedBeforeNew ==
  out_new # <<>> => out_byname = <<>>

\* C18 as stated: in every state of an output handle, the states inside
\* open, open_compressed and close included, the view points to a live
\* buffer, never to that of a released stream.
C18_ViewNeverDangles ==
  out_live = TRUE => ViewIsBound

\* C18: the view points to the buffer of std::cout or of the owned stream in
\* every state of an output handle but the one between the release of the old
\* stream (lines 50, 58, 66) and the repointing of the view (lines 51, 59,
\* 67), where it points to the released stream's buffer and is not used.
C18_ViewBoundButWhileRepointing ==
  /\ (out_live = TRUE /\ pc \notin {"rdbuf", "c_rdbuf"}) => ViewIsBound
  /\ (out_live = TRUE /\ pc \in {"rdbuf", "c_rdbuf"})
       => (out_os.rdbuf = "released" <=> oparg.owned /\ ~ViewIsBound)
C18_Witness ==
  /\ pc = "idle" /\ out_live = TRUE
  /\ last.op \in {"open", "open_compressed"} /\ last.bound
  /\ raised # NoError
  /\ out_os.rdbuf = "byname" /\ out_byname # <<>>

----------------------------------------------------------------------------
(* Rewinding and opening, checked under SpecIn *)

\* what In::open(filename) raises in the files d
OpenRaises(d, filename) ==
  IF fail(BxzIfstream(d, filename).state) THEN open_error(filename) ELSE NoError

\* C19: rewind() ends as open(filename()) would: the same owned stream, view
\* and state, and the same "Cannot read from file" error when the stored name
\* cannot be opened.
C19_RewindIsOpenOfFilename ==
  last.op = "rewind"
    => /\ in_byname = <<BxzIfstream(disk, in_myfile)>>
       /\ in_is = ResetView(in_is, BxzIfstream(disk, in_myfile))
       /\ raised = OpenRaises(disk, in_myfile)

----------------------------------------------------------------------------
(* Further properties of the output handle, checked under SpecOut *)

\* what a reader that opens fn with In::open gets to the end of the stream:
\* the content written, once the compressed stream has been completed
ReadBack(d, fn) ==
  LET s == BxzIfstream(d, fn)
  IN IF s.isopen /\ d[fn].fin THEN d[fn].data ELSE <<"incomplete">>

\* C15: what was written through open_compressed(filename, ...) is what
\* In::open(filename) reads back, once the writing has been ended by close(),
\* by the destructor or by a redirect to another target.
C15_CompressedRoundTrip ==
  [][(/\ seg.st = "zopen"
      /\ \/ last'.op \in {"close", "~Out"}
         \/ last'.op \in {"open", "open_compressed"} /\ last'.arg # seg.file)
       => ReadBack(disk', seg.file) = seg.vals
    ]_vars

\* C20: an open or open_compressed on a target that can be created, made
\* after a failed open or with the view in a failed state, does not throw and
\* leaves the view in the good state of the new stream; a value written to
\* it next is taken without an error.
C20_FailureIsNotSticky ==
  /\ (last.op \in {"open", "open_compressed"} /\ CanCreate(last.arg))
       => /\ raised = NoError
          /\ out_os.state = out_byname[1].state
          /\ good(out_os.state)
  /\ (/\ last.op = "write" /\ last.arg = "value" /\ last.prestate = {}
      /\ bound_by \in {"open", "open_compressed"} /\ out_byname[1].isopen)
       => (raised = NoError /\ good(out_os.state))
C20_Witness ==
  /\ last.op = "open" /\ CanCreate(last.arg) /\ badbit \in last.prestate
  /\ raised = NoError /\ good(out_os.state)

----------------------------------------------------------------------------
(* directory_exists *)

PathKinds == {"dir", "locked", "file", "none"}

\* opendir(3): a handle (TRUE) when the path can be opened as a directory,
\* NULL (FALSE) otherwise
opendir(f, dir_path) == f[dir_path] = "dir"
\* the open DIR handles after opendir returned dir, and after closedir
Opened(n, dir) == IF dir THEN n + 1 ELSE n
closedir_forgotten(n) == n
closedir(n) == n - 1

\* directory_exists(dir_path)
directory_exists(dir_path) ==
  LET dir == opendir(fs, dir_path)
  IN /\ IF dir
          THEN /\ open_dirs' = closedir(Opened(open_dirs, dir))
               /\ raised' = NoError
          ELSE /\ open_dirs' = Opened(open_dirs, dir)
               /\ raised' = directory_does_not_exist(dir_path)
     /\ last' = Op("directory_exists", dir_path)
     /\ UNCHANGED <<disk, outvars, invars, result, tovars, fs, stepvars>>

\* the paths name anything; no handle of the library exists
InitDir ==
  /\ disk = [n \in Names |-> NoFile]
  /\ sink = <<>>
  /\ cout_state = {}
  /\ out_live = FALSE
  /\ out_byname = <<>>
  /\ out_os = [rdbuf |-> "cout", state |-> {}]
  /\ out_myfile = ""
  /\ stdin = [data |-> StdinData, pos |-> 0]
  /\ in_live = "none"
  /\ in_byname = <<>>
  /\ in_is = [rdbuf |-> "cin", state |-> {}]
  /\ in_myfile = ""
  /\ last = Op("none", "")
  /\ raised = NoError
  /\ result = NoResult
  /\ nwritten = 0
  /\ bound_by = "none"
  /\ seg = NoSeg
  /\ to = NoHandle
  /\ fs \in [Paths -> PathKinds]
  /\ open_dirs = 0
  /\ pc = "idle"
  /\ out_new = <<>>
  /\ oparg = NoArg

NextDir == \E dir_path \in Paths : directory_exists(dir_path)

SpecDir == InitDir /\ [][NextDir]_vars

\* C16: directory_exists(path) returns normally exactly when the path can be
\* opened as a directory, throws directory_does_not_exist(path) otherwise, and
\* leaves no DIR handle open either way.
C16_DirectoryExists ==
  last.op = "directory_exists"
    => /\ (raised = NoError) <=> (fs[last.arg] = "dir")
       /\ fs[last.arg] # "dir" => raised = directory_does_not_exist(last.arg)
       /\ open_dirs = 0
C16_Witness ==
  /\ last.op = "directory_exists" /\ fs[last.arg] = "dir"
  /\ raised = NoError /\ open_dirs = 0
  /\ \E p \in Paths : fs[p] # "dir"

====
